---------------------------- MODULE Spec2Model ----------------------------
(***************************************************************************)
(* A model of image_combiner (src/src/main.rs): the run of main() from its *)
(* parsed command line to the saved canvas.  The reader threads of         *)
(* open_source_images and the worker threads of the composition loop are   *)
(* separate processes; the sequential stretches of main() are one action   *)
(* each.                                                                   *)
(***************************************************************************)
EXTENDS Integers, Sequences, FiniteSets, TLC

(***************************************************************************)
(* Program constants and bounds                                            *)
(***************************************************************************)

\* main.rs:163  vec![None, None, None, None]: the four source slots
NumSlots == 4

\* main.rs:318  thread_job_size = width * 32
JobRows == 32

\* main.rs:287  the "no dimensions yet" value of width and height.  The code
\* uses 0xFFFFFFFF, which is beyond TLC's 32-bit integers; -1 stands for it
\* (the same bits as an i32), a value no decoded image has as a dimension.
NoSize == -1

\* main.rs:266  the value of "channel - 1" for channel = 0 when the
\* subtraction wraps (usize::MAX); -1 stands for it, as for NoSize.
UsizeMax == -1

\* main.rs:227  the alpha value of the initial fill, Rgba([0, 0, 0, 255])
White == 255

\* main.rs:276  the value of the fill character 'g'
Grey == 128

\* the largest num_cpus::get() tried
MaxCpus == 2

Slots == 0 .. (NumSlots - 1)

\* Option::None in a slot that holds a file index otherwise
None == -1

Min(a, b) == IF a < b THEN a ELSE b

CeilDiv(a, b) == (a + b - 1) \div b

(***************************************************************************)
(* image::ColorType as reported by DynamicImage::color()                   *)
(***************************************************************************)

ColorTypes == {"L8", "La8", "Rgb8", "Rgba8", "L16", "La16", "Rgb16", "Rgba16",
               "Rgb32F", "Rgba32F"}

\* file.color().channel_count()  (main.rs:243)
channel_count(color) ==
    CASE color \in {"L8", "L16"} -> 1
      [] color \in {"La8", "La16"} -> 2
      [] color \in {"Rgb8", "Rgb16", "Rgb32F"} -> 3
      [] OTHER -> 4

\* the match of main.rs:249-263
ChannelFormat(color) ==
    CASE color \in {"L8", "La8", "Rgb8", "Rgba8"} -> "Uint8"
      [] color \in {"L16", "La16", "Rgb16", "Rgba16"} -> "Uint16"
      [] color \in {"Rgb32F", "Rgba32F"} -> "Float32"
      [] OTHER -> "Uint8"

\* bytes of one element of a format
ElemSize(format) ==
    CASE format = "Uint8" -> 1
      [] format = "Uint16" -> 2
      [] OTHER -> 4

\* file.color().bytes_per_pixel()  (main.rs:242)
bytes_per_pixel(color) == channel_count(color) * ElemSize(ChannelFormat(color))

(***************************************************************************)
(* The decoded content of the file given with flag -f: element e of its    *)
(* buffer (pixel e \div channels, channel e % channels).  Uint8 and Uint16 *)
(* elements are their integer value; a Float32 element is given in         *)
(* quarters (n stands for n/4), so that fractions, negative values and     *)
(* values above 255 all occur.                                             *)
(***************************************************************************)
FileElem(f, color, e) ==
    CASE ChannelFormat(color) = "Uint8" -> (f * 50 + e * 3 + 1) % 256
      [] ChannelFormat(color) = "Uint16" -> ((f * 50 + e * 3 + 1) * 259) % 65536
      [] OTHER -> ((f * 50 + e * 37) % 1200) - 100

\* the casts "as u8" of main.rs:343-348: identity on u8, the low byte of a
\* u16, and for an f32 the value rounded toward zero and saturated to 0..255
Narrow(format, v) ==
    CASE format = "Uint8" -> v
      [] format = "Uint16" -> v % 256
      [] OTHER -> IF v <= 0 THEN 0 ELSE Min(v \div 4, 255)

(***************************************************************************)
(* Mask characters                                                         *)
(***************************************************************************)

\* char::to_digit(10)  (main.rs:228); None for a character that is no digit
to_digit(ch) ==
    CASE ch = "0" -> 0 [] ch = "1" -> 1 [] ch = "2" -> 2 [] ch = "3" -> 3
      [] ch = "4" -> 4 [] ch = "5" -> 5 [] ch = "6" -> 6 [] ch = "7" -> 7
      [] ch = "8" -> 8 [] ch = "9" -> 9 [] OTHER -> None

\* the select characters of main.rs:213-216
SelectChars == {"r", "g", "b", "a"}

SelectCode(ch) ==
    CASE ch = "r" -> 0 [] ch = "g" -> 1 [] ch = "b" -> 2 [] OTHER -> 3

\* the fill characters of main.rs:274-276
FillChars == {"b", "w", "g"}

FillValue(ch) ==
    CASE ch = "b" -> 0 [] ch = "w" -> White [] OTHER -> Grey

(***************************************************************************)
(* State                                                                   *)
(***************************************************************************)

VARIABLES
    args,                \* the parsed command line (main.rs:161-185)
    env,                 \* what the run meets outside: files, cores, build
    pc,                  \* where main() is
    readers,             \* path indices whose reader thread is running
    images,              \* rets of open_source_images, then images of main
    channel_selects,
    fill,
    swizzled_images,
    byte_strides,
    red_channel_strides,
    formats,
    width,
    height,
    rgba,                \* the canvas, bytes 0 .. 4*width*height-1
    img_idx,
    wave,                \* iteration of the loop of main.rs:333
    workers,             \* the worker threads spawned and not yet joined
    written,             \* history: (img_idx, chunk, byte) for every canvas byte a task wrote
    out,                 \* what was printed: failures, warnings, progress
    saved                \* the output file was written

inputs == <<args, env>>

plan == <<channel_selects, fill, swizzled_images, byte_strides,
          red_channel_strides, formats, width, height>>

vars == <<args, env, pc, readers, images, channel_selects, fill,
          swizzled_images, byte_strides, red_channel_strides, formats, width,
          height, rgba, img_idx, wave, workers, written, out, saved>>

paths == args.paths
swizzle_mask == args.swizzle_mask
select_mask == args.select_mask
output_path == args.output_path
files == env.files
num_cpus == env.num_cpus

(***************************************************************************)
(* The runs tried.  A run is a command line and the world it meets.        *)
(***************************************************************************)

\* every mask (the sequence of its characters) of length lo..hi over an alphabet
MasksOver(alphabet, lo, hi) ==
    UNION {[1 .. n -> alphabet] : n \in lo .. hi}

\* the file behind a path: whether it decodes, and what it decodes to
File(ok, w, h, color) == [ok |-> ok, width |-> w, height |-> h, color |-> color]

\* what stands in files[i] when no path i was given
NoFile == File(FALSE, 1, 1, "Rgba8")

Run(p, f, sw, sel, cpus, oc) ==
    [args |-> [ok |-> TRUE, paths |-> p, swizzle_mask |-> sw,
               select_mask |-> sel, output_path |-> "ok"],
     env  |-> [files |-> f, num_cpus |-> cpus, overflow_checks |-> oc,
               dir_ok |-> TRUE, encode_ok |-> TRUE]]

AllPaths == [i \in Slots |-> TRUE]

PathsOf(S) == [i \in Slots |-> i \in S]

DefaultSwizzle == <<"b", "b", "b", "w">>

DefaultSelect == <<"r", "r", "r", "r">>

\* heights around the job size: below it, exactly it, one row more, two jobs
Heights == {1, JobRows, JobRows + 1, 2 * JobRows}

\* four sources of one size and one encoding, every core count
UniformRuns ==
    {Run(AllPaths, [i \in Slots |-> File(TRUE, d[1], d[2], c)], sw,
         DefaultSelect, n, FALSE) :
        d \in ({1} \X Heights) \cup {<<2, JobRows>>},
        c \in {"L8", "Rgba8", "Rgb16", "Rgba32F"},
        sw \in {<<"0", "1", "2", "3">>, DefaultSwizzle},
        n \in 1 .. MaxCpus}
    \cup
    {Run(AllPaths, [i \in Slots |-> File(TRUE, 1, JobRows, "Rgba8")],
         <<"0", "1", "2", "3", "0">>, DefaultSelect, 1, FALSE)}

\* two sources, every swizzle mask of length 2..3 over sources and fills
SwizzleRuns ==
    {Run(PathsOf({0, 1}),
         [i \in Slots |-> IF i < 2 THEN File(TRUE, 1, JobRows, "Rgba8") ELSE NoFile],
         sw, DefaultSelect, 1, FALSE) :
        sw \in MasksOver({"0", "1", "b", "w", "g"}, 2, 3)}

\* two sources of differing encodings, the select mask varied
SelectRuns ==
    {Run(PathsOf({0, 1}),
         [i \in Slots |-> IF i = 0 THEN File(TRUE, 1, JobRows, c[1])
                          ELSE IF i = 1 THEN File(TRUE, 1, JobRows, c[2])
                          ELSE NoFile],
         sw, <<m[1], m[2], "r", "r">>, 1, FALSE) :
        c \in {"L8", "Rgba8", "Rgb16"} \X {"L8", "Rgba8", "Rgb16"},
        m \in {"r", "g", "a"} \X {"r", "g", "a"},
        sw \in {<<"0", "1">>, <<"1", "0">>, <<"1", "1">>, <<"b", "1">>,
                <<"0", "w", "0">>}}

\* every slot absent, undecodable, or decoding to one of two sizes
SlotKinds == {"absent", "bad", "small", "wide"}

FileOfKind(k) ==
    CASE k = "small" -> File(TRUE, 1, 1, "Rgba8")
      [] k = "wide" -> File(TRUE, 2, 1, "Rgba8")
      [] OTHER -> NoFile

SubsetRuns ==
    {Run([i \in Slots |-> k[i] # "absent"], [i \in Slots |-> FileOfKind(k[i])],
         sw, DefaultSelect, 1, FALSE) :
        k \in [Slots -> SlotKinds],
        sw \in {DefaultSwizzle, <<"0", "b">>}}

\* masks with characters outside their alphabets, too short or too long
BadMaskRuns ==
    {Run(PathsOf(S), [i \in Slots |-> IF i \in S THEN FileOfKind("small") ELSE NoFile],
         sw, sel, 1, oc) :
        S \in {{}, {0}, {1}, {0, 1}},
        sw \in {DefaultSwizzle, <<"0", "b">>, <<"0", "x">>, <<"x", "0">>,
                <<"b", "x">>, <<"b", "4">>, <<"b">>, <<"b", "b", "b", "w", "b">>},
        sel \in {DefaultSelect, <<"x", "r", "r", "r">>, <<"r", "x", "r", "r">>,
                 <<"r", "r">>, <<"r">>, <<"r", "r", "r", "r", "x">>},
        oc \in BOOLEAN}

\* a bad command line, no usable output path, a failing encoder
OneSource == Run(PathsOf({0}), [i \in Slots |-> IF i = 0 THEN FileOfKind("small") ELSE NoFile],
                 DefaultSwizzle, DefaultSelect, 1, FALSE)

EnvRuns ==
    {[OneSource EXCEPT !.args.ok = FALSE],
     [OneSource EXCEPT !.args.output_path = "absent"],
     [OneSource EXCEPT !.args.output_path = "noparent"],
     [OneSource EXCEPT !.env.dir_ok = FALSE],
     [OneSource EXCEPT !.env.encode_ok = FALSE]}

Runs == UniformRuns \cup SwizzleRuns \cup SelectRuns \cup SubsetRuns
        \cup BadMaskRuns \cup EnvRuns



(***************************************************************************)
(* main(), lines 160-203: the checks before any file is opened             *)
(***************************************************************************)

Init ==
    /\ \E r \in Runs : args = r.args /\ env = r.env
    /\ pc = "start"
    /\ readers = {}
    /\ images = [i \in Slots |-> None]
    /\ channel_selects = [i \in Slots |-> 0]
    /\ fill = [c \in 0 .. 3 |-> IF c = 3 THEN White ELSE 0]
    /\ swizzled_images = <<>>
    /\ byte_strides = <<>>
    /\ red_channel_strides = <<>>
    /\ formats = <<>>
    /\ width = NoSize
    /\ height = NoSize
    /\ rgba = <<>>
    /\ img_idx = 0
    /\ wave = 0
    /\ workers = {}
    /\ written = {}
    /\ out = {}
    /\ saved = FALSE

\* the ways main() ends: a return without a report, a return after a
\* failure was printed, a panic, the end of main() after the save
Terminal == {"exit", "failed", "panic", "done"}

\* rets_iter.next() (main.rs:137): the slot the reader of path_idx is handed
\* is the next unused one, so its index is the number of paths given before
RetSlot(path_idx) == Cardinality({j \in Slots : j < path_idx /\ paths[j]})

\* main.rs:167-203, then the spawn loop of open_source_images (main.rs:127-153)
Start ==
    /\ pc = "start"
    /\ IF ~args.ok
         THEN /\ pc' = "exit"
              /\ out' = out \cup {<<"help">>}
              /\ readers' = readers
       ELSE IF Len(swizzle_mask) < 2
         THEN /\ pc' = "failed"
              /\ out' = out \cup {<<"Swizzle mask is less than 2">>}
              /\ readers' = readers
       ELSE IF output_path # "ok"
         THEN /\ pc' = "exit"
              /\ UNCHANGED <<out, readers>>
       ELSE IF ~env.dir_ok
         THEN /\ pc' = "failed"
              /\ out' = out \cup {<<"Invalid path">>}
              /\ readers' = readers
       ELSE /\ pc' = "reading"
            /\ readers' = {path_idx \in Slots : paths[path_idx]}
            /\ out' = out
    /\ UNCHANGED <<inputs, images, plan, rgba, img_idx, wave, workers, written, saved>>

\* the thread spawned at main.rs:138-152 for path_idx, run to its end
Reader(path_idx) ==
    /\ pc = "reading"
    /\ path_idx \in readers
    /\ readers' = readers \ {path_idx}
    /\ IF files[path_idx].ok
         THEN images' = [images EXCEPT ![RetSlot(path_idx)] = path_idx]
         ELSE images' = images
    /\ out' = out \cup {<<"Reading", path_idx, files[path_idx].ok>>}
    /\ UNCHANGED <<inputs, pc, plan, rgba, img_idx, wave, workers, written, saved>>

(***************************************************************************)
(* main(), lines 205-323: the masks are resolved against the images, the   *)
(* sizes compared and the canvas created.  One thread, no interleaving.    *)
(***************************************************************************)

\* the loop of main.rs:209-224 from path_idx on; cs is channel_selects
RECURSIVE SelectLoop(_, _)
SelectLoop(path_idx, cs) ==
    IF path_idx = NumSlots
      THEN [st |-> "ok", channel_selects |-> cs, out |-> {}]
    ELSE IF ~paths[path_idx]
      THEN SelectLoop(path_idx + 1, cs)
    ELSE IF path_idx >= Len(select_mask)
      \* select_mask_bytes[path_idx]: index out of bounds
      THEN [st |-> "panic", channel_selects |-> cs, out |-> {}]
    ELSE IF select_mask[path_idx + 1] \in SelectChars
      THEN SelectLoop(path_idx + 1,
                      [cs EXCEPT ![path_idx] = SelectCode(select_mask[path_idx + 1])])
    ELSE [st |-> "failed", channel_selects |-> cs,
          out |-> {<<"Invalid select mask", select_mask[path_idx + 1], path_idx>>,
                   <<"help">>}]

\* "channel - 1" of main.rs:266, where the subtraction does not panic
ChannelMinusOne(channel) == IF channel = 0 THEN UsizeMax ELSE channel - 1

\* one source pushed onto the plan (main.rs:241-264); f is images[swizzle]
PushSource(acc, swizzle, f) ==
    LET color == files[f].color
        cc    == channel_count(color)
        clamp == cc <= acc.channel_selects[swizzle]
    IN  [acc EXCEPT
           !.swizzled_images = Append(@, f),
           !.byte_strides = Append(@, bytes_per_pixel(color)),
           !.red_channel_strides = Append(@, cc),
           !.channel_selects = IF clamp THEN [@ EXCEPT ![swizzle] = cc - 1] ELSE @,
           !.out = IF clamp
                     THEN @ \cup {<<"WARNING", swizzle, cc, select_mask[swizzle + 1], cc>>}
                     ELSE @,
           !.formats = Append(@, ChannelFormat(color))]

\* the loop of main.rs:233-284 from channel on
RECURSIVE SwizzleLoop(_, _)
SwizzleLoop(channel, acc) ==
    IF channel = Len(swizzle_mask) THEN acc
    ELSE
      LET ch      == swizzle_mask[channel + 1]
          swizzle == to_digit(ch)
      IN  IF swizzle # None
            THEN IF swizzle > 3
                   THEN [acc EXCEPT !.st = "failed",
                           !.out = @ \cup {<<"Swizzle mask contains source image out of bounds", swizzle>>,
                                           <<"help">>}]
                 ELSE IF images[swizzle] # None
                   THEN SwizzleLoop(channel + 1, PushSource(acc, swizzle, images[swizzle]))
                 ELSE IF channel = 0 /\ env.overflow_checks
                   \* "channel - 1": attempt to subtract with overflow
                   THEN [acc EXCEPT !.st = "panic"]
                 ELSE [acc EXCEPT !.st = "failed",
                         !.out = @ \cup {<<"Swizzle mask needs input source", ChannelMinusOne(channel)>>,
                                         <<"help">>}]
          ELSE IF ch \in FillChars
            THEN IF channel >= 4
                   \* fill.0[channel]: index out of bounds
                   THEN [acc EXCEPT !.st = "panic"]
                   ELSE SwizzleLoop(channel + 1, [acc EXCEPT !.fill[channel] = FillValue(ch)])
          ELSE [acc EXCEPT !.st = "failed",
                  !.out = @ \cup {<<"Invalid swizzle character", ch>>, <<"help">>}]

\* the loop of main.rs:292-304 from slot i on; s is (width, height, mismatch)
RECURSIVE SizeLoop(_, _)
SizeLoop(i, s) ==
    IF i = NumSlots \/ s.image_size_mismatch THEN s
    ELSE IF images[i] = None THEN SizeLoop(i + 1, s)
    ELSE IF s.width = NoSize \/ s.height = NoSize
      THEN SizeLoop(i + 1, [s EXCEPT !.width = files[images[i]].width,
                                      !.height = files[images[i]].height])
    ELSE IF s.width # files[images[i]].width \/ s.height # files[images[i]].height
      THEN [s EXCEPT !.image_size_mismatch = TRUE]
    ELSE SizeLoop(i + 1, s)

\* the report of main.rs:308-315 from slot i on: a line per image held, with
\* the path of the same index; paths[img_idx].unwrap() panics on a path not given
RECURSIVE MismatchReport(_, _)
MismatchReport(i, lines) ==
    IF i = NumSlots THEN [st |-> "failed", out |-> lines \cup {<<"help">>}]
    ELSE IF images[i] = None THEN MismatchReport(i + 1, lines)
    ELSE IF ~paths[i] THEN [st |-> "panic", out |-> lines]
    ELSE MismatchReport(i + 1,
             lines \cup {<<"size", i, i, files[images[i]].width, files[images[i]].height>>})

\* RgbaImage::from_pixel(width, height, fill)  (main.rs:323)
from_pixel(w, h, px) == [b \in 0 .. (4 * w * h - 1) |-> px[b % 4]]

\* main.rs:208-323, entered when thread::scope of open_source_images has
\* joined every reader
Resolve ==
    /\ pc = "reading"
    /\ readers = {}
    /\ LET sel == SelectLoop(0, channel_selects)
           sw  == SwizzleLoop(0, [st |-> "ok",
                                  channel_selects |-> sel.channel_selects,
                                  fill |-> fill,
                                  swizzled_images |-> swizzled_images,
                                  byte_strides |-> byte_strides,
                                  red_channel_strides |-> red_channel_strides,
                                  formats |-> formats,
                                  out |-> {}])
           sz  == SizeLoop(0, [width |-> width, height |-> height,
                               image_size_mismatch |-> FALSE])
           rep == MismatchReport(0, {<<"All input images must share the same size">>})
       IN  IF sel.st # "ok"
             THEN /\ pc' = sel.st
                  /\ out' = out \cup sel.out
                  /\ channel_selects' = sel.channel_selects
                  /\ UNCHANGED <<fill, swizzled_images, byte_strides,
                                 red_channel_strides, formats, width, height,
                                 rgba, written>>
           ELSE
             /\ channel_selects' = sw.channel_selects
             /\ fill' = sw.fill
             /\ swizzled_images' = sw.swizzled_images
             /\ byte_strides' = sw.byte_strides
             /\ red_channel_strides' = sw.red_channel_strides
             /\ formats' = sw.formats
             /\ IF sw.st # "ok"
                  THEN /\ pc' = sw.st
                       /\ out' = out \cup sw.out
                       /\ UNCHANGED <<width, height, rgba, written>>
                ELSE
                  /\ width' = sz.width
                  /\ height' = sz.height
                  /\ IF sz.image_size_mismatch
                       THEN /\ pc' = rep.st
                            /\ out' = out \cup sw.out \cup rep.out
                            /\ UNCHANGED <<rgba, written>>
                     ELSE IF sz.width = NoSize \/ sz.height = NoSize
                       \* from_pixel(0xFFFFFFFF, 0xFFFFFFFF, _): the buffer
                       \* length overflows usize
                       THEN /\ pc' = "panic"
                            /\ out' = out \cup sw.out \cup {<<"Combining image", sz.width, sz.height>>}
                            /\ UNCHANGED <<rgba, written>>
                     ELSE /\ pc' = IF Len(sw.swizzled_images) = 0 THEN "save" ELSE "compose"
                          /\ out' = out \cup sw.out \cup {<<"Combining image", sz.width, sz.height>>}
                          /\ rgba' = from_pixel(sz.width, sz.height, sw.fill)
                          /\ written' = {}
    /\ UNCHANGED <<inputs, readers, images, img_idx, wave, workers, saved>>

(***************************************************************************)
(* main(), lines 325-360: the composition.  For each image of the plan,    *)
(* waves of at most num_cpus worker threads, one per chunk of              *)
(* thread_job_size pixels.                                                 *)
(***************************************************************************)

\* main.rs:318
thread_job_size == width * JobRows

\* file.as_bytes().len() of the decoded file f
ImageBytes(f) == files[f].width * files[f].height * bytes_per_pixel(files[f].color)

\* swizzled_images[k].chunks(thread_job_size * read_stride)  (main.rs:330):
\* the number of chunks, and the byte length of chunk c
SourceChunks(k) ==
    CeilDiv(ImageBytes(swizzled_images[k + 1]), thread_job_size * byte_strides[k + 1])

SourceChunkLen(k, c) ==
    Min(thread_job_size * byte_strides[k + 1],
        ImageBytes(swizzled_images[k + 1]) - c * thread_job_size * byte_strides[k + 1])

\* rgba.chunks_mut(thread_job_size * 4)  (main.rs:331): where chunk c starts
\* in the canvas, and its byte length
DestChunkStart(c) == c * thread_job_size * 4

DestChunkLen(c) == Min(thread_job_size * 4, 4 * width * height - DestChunkStart(c))

\* the index read in the source chunk (main.rs:343, 345, 348)
SourceIndex(i, red_channel_stride, channel_select_offset) ==
    i * red_channel_stride + channel_select_offset

\* DestIndex with the channel offset forgotten: every task writes the first
\* byte of each pixel
DestIndexNoChannel(i, k) == i * 4

\* the index written in the destination chunk (main.rs:352)
DestIndex(i, k) == i * 4 + k

\* what a read past the end of the source buffer may return (main.rs:345, 348:
\* the transmuted slice keeps the byte length as its element count)
OutOfBufferValues == {0, 255}

\* the chunks of one wave: up to num_cpus calls of source_data.next()
\* (main.rs:335-336) in wave number v of image k
WaveChunks(k, v) == (v * num_cpus) .. (Min((v + 1) * num_cpus, SourceChunks(k)) - 1)

\* main.rs:326-338: the locals of the channel are read, and a wave is spawned
SpawnWave ==
    /\ pc = "compose"
    /\ IF img_idx >= NumSlots
         \* channel_selects[img_idx]: index out of bounds
         THEN /\ pc' = "panic"
              /\ workers' = workers
         ELSE /\ pc' = "joining"
              /\ workers' = workers \cup
                     {[img_idx |-> img_idx, chunk |-> c, i |-> 0, st |-> "running"] :
                         c \in WaveChunks(img_idx, wave)}
    /\ UNCHANGED <<inputs, readers, images, plan, rgba, img_idx, wave, written, out, saved>>

\* one iteration of the loop of main.rs:339-353 in worker w, or its end
Worker(w) ==
    /\ pc = "joining"
    /\ w \in workers
    /\ w.st = "running"
    /\ LET f      == swizzled_images[w.img_idx + 1]
           format == formats[w.img_idx + 1]
           rcs    == red_channel_strides[w.img_idx + 1]
           e      == SourceIndex(w.i, rcs, channel_selects[w.img_idx])
           \* the element's index in the whole buffer of f
           g      == w.chunk * thread_job_size * rcs + e
           d      == DestIndex(w.i, w.img_idx)
           read   == IF g < ImageBytes(f) \div ElemSize(format)
                       THEN {FileElem(f, files[f].color, g)}
                       ELSE OutOfBufferValues
           to(st) == (workers \ {w}) \cup {[w EXCEPT !.st = st]}
       IN  IF w.i = thread_job_size
             THEN /\ workers' = to("done")
                  /\ UNCHANGED <<rgba, written>>
           ELSE IF e >= SourceChunkLen(w.img_idx, w.chunk)
             \* source_chunk[..]: index out of bounds
             THEN /\ workers' = to("panicked")
                  /\ UNCHANGED <<rgba, written>>
           ELSE IF d >= DestChunkLen(w.chunk)
             \* dest_chunk[..]: index out of bounds
             THEN /\ workers' = to("panicked")
                  /\ UNCHANGED <<rgba, written>>
           ELSE \E v \in read :
                  /\ rgba' = [rgba EXCEPT ![DestChunkStart(w.chunk) + d] = Narrow(format, v)]
                  /\ written' = written \cup {<<w.img_idx, w.chunk, DestChunkStart(w.chunk) + d>>}
                  /\ workers' = (workers \ {w}) \cup {[w EXCEPT !.i = @ + 1]}
    /\ UNCHANGED <<inputs, pc, readers, images, plan, img_idx, wave, out, saved>>

\* the end of thread::scope (main.rs:357): every thread of the scope has ended
JoinReady == \A w \in workers : w.st # "running"

\* main.rs:357-360: the wave is joined; a panic of a worker is passed on;
\* then the next wave, the next image, or the end of the composition
JoinWave ==
    /\ pc = "joining"
    /\ JoinReady
    /\ workers' = {w \in workers : w.st = "running"}
    /\ IF \E w \in workers : w.st = "panicked"
         THEN /\ pc' = "panic"
              /\ UNCHANGED <<img_idx, wave, out>>
       ELSE IF (wave + 1) * num_cpus < SourceChunks(img_idx)
         THEN /\ pc' = "compose"
              /\ wave' = wave + 1
              /\ UNCHANGED <<img_idx, out>>
       ELSE IF img_idx + 1 < Len(swizzled_images)
         THEN /\ pc' = "compose"
              /\ img_idx' = img_idx + 1
              /\ wave' = 0
              /\ out' = out
       ELSE /\ pc' = "save"
            /\ out' = out \cup {<<"Combining image done">>}
            /\ UNCHANGED <<img_idx, wave>>
    /\ UNCHANGED <<inputs, readers, images, plan, rgba, written, saved>>

\* main.rs:363-371: the canvas is handed to the encoder
Save ==
    /\ pc = "save"
    /\ pc' = "done"
    /\ saved' = env.encode_ok
    /\ out' = out \cup {<<"Writing out", env.encode_ok>>}
    /\ UNCHANGED <<inputs, readers, images, plan, rgba, img_idx, wave, workers, written>>

Next ==
    \/ Start
    \/ \E path_idx \in Slots : Reader(path_idx)
    \/ Resolve
    \/ SpawnWave
    \/ \E w \in workers : Worker(w)
    \/ JoinWave
    \/ Save

Spec == Init /\ [][Next]_vars

(***************************************************************************)
(* Vocabulary of the properties                                            *)
(***************************************************************************)

\* slot i is populated: a path was given with flag -i and it decodes
Populated(i) == paths[i] /\ files[i].ok

\* the run got past the checks of the command line and the output path
Admitted == args.ok /\ output_path = "ok" /\ env.dir_ok

SwizzleChars == {"0", "1", "2", "3"} \cup FillChars

ValidSwizzle ==
    /\ Len(swizzle_mask) \in 2 .. 4
    /\ \A c \in 1 .. Len(swizzle_mask) : swizzle_mask[c] \in SwizzleChars

ValidSelect ==
    /\ Len(select_mask) = NumSlots
    /\ \A i \in 1 .. Len(select_mask) : select_mask[i] \in SelectChars

\* every source the swizzle mask names is populated
SourcesPresent ==
    \A c \in 1 .. Len(swizzle_mask) :
        to_digit(swizzle_mask[c]) \in Slots => Populated(to_digit(swizzle_mask[c]))

\* the populated slots agree on width and height
SameSizes ==
    \A i, j \in Slots :
        Populated(i) /\ Populated(j) =>
            files[i].width = files[j].width /\ files[i].height = files[j].height

\* the number of pixels of the canvas
Pixels == Cardinality(DOMAIN rgba) \div 4

\* the 8-bit value of channel k of pixel p of the file given with flag -s
SourceValue(s, p, k) ==
    Narrow(ChannelFormat(files[s].color),
           FileElem(s, files[s].color, p * channel_count(files[s].color) + k))

\* the source digit of the n-th entry of the plan: the n-th digit of the mask
PlanSource(n) ==
    to_digit(SelectSeq(swizzle_mask, LAMBDA ch : to_digit(ch) # None)[n])

\* main() holds a resolved plan and a canvas
Composing == pc \in {"compose", "joining", "save", "done"}

(***************************************************************************)
(* The claims                                                              *)
(***************************************************************************)

\* C1: given four decoded sources of one size W x H (H a multiple of 32 or
\* not), swizzle mask 0123 and select mask rrrr, the run completes the
\* composition, and the canvas is W x H with channel c of every pixel p equal
\* to the 8-bit value of the red channel of source c at p.
C1_FourSourcesRed ==
    ( /\ Admitted
      /\ \A i \in Slots : Populated(i)
      /\ SameSizes
      /\ swizzle_mask = <<"0", "1", "2", "3">>
      /\ select_mask = DefaultSelect
      /\ pc \in Terminal )
    => /\ pc = "done"
       /\ DOMAIN rgba = 0 .. (4 * files[0].width * files[0].height - 1)
       /\ \A p \in 0 .. (Pixels - 1) : \A c \in 0 .. 3 :
              rgba[4 * p + c] = SourceValue(c, p, 0)

\* C2: in a completed run with a valid swizzle mask whose sources are all
\* populated, the character at position c decides output channel c: a digit
\* s puts a channel of source s there at every pixel, and b, w, g put 0, 255,
\* 128 there at every pixel.  (Stated for the default select mask, under
\* which every source is read at its first channel.)
C2_PositionIsChannel ==
    ( /\ pc = "done"
      /\ ValidSwizzle
      /\ select_mask = DefaultSelect
      /\ SourcesPresent )
    => \A c \in 0 .. (Len(swizzle_mask) - 1) :
          LET ch == swizzle_mask[c + 1]
              s  == to_digit(ch)
          IN  IF s # None
                THEN \E k \in 0 .. (channel_count(files[s].color) - 1) :
                        \A p \in 0 .. (Pixels - 1) : rgba[4 * p + c] = SourceValue(s, p, k)
                ELSE \A p \in 0 .. (Pixels - 1) : rgba[4 * p + c] = FillValue(ch)

\* C3: the channel the compositor reads from the n-th source of the plan is
\* the one the select mask names at the index of that source (clamped to the
\* source's last channel), wherever the source stands in the swizzle mask.
C3_SelectBySource ==
    ( /\ Composing
      /\ ValidSwizzle
      /\ ValidSelect )
    => \A n \in 1 .. Len(swizzled_images) :
          channel_selects[n - 1] =
              Min(SelectCode(select_mask[PlanSource(n) + 1]),
                  channel_count(files[images[PlanSource(n)]].color) - 1)

\* C4: with swizzle mask bbbw, a run that is given an output path ends with a
\* canvas whose every pixel is (0, 0, 0, 255), whether no, some or all four
\* slots are populated.
C4_DefaultMaskFills ==
    ( /\ Admitted
      /\ swizzle_mask = DefaultSwizzle
      /\ ValidSelect
      /\ SameSizes
      /\ pc \in Terminal )
    => /\ pc = "done"
       /\ \A p \in 0 .. (Pixels - 1) :
              <<rgba[4 * p], rgba[4 * p + 1], rgba[4 * p + 2], rgba[4 * p + 3]>>
                  = <<0, 0, 0, White>>

\* C5: the channel index the compositor uses for every source of the plan
\* lies in 0 .. ChannelCount-1 of that source, in every order of the sources
\* in the swizzle mask.
C5_SelectInRange ==
    ( /\ Composing
      /\ ValidSwizzle
      /\ ValidSelect )
    => \A n \in 1 .. Len(swizzled_images) :
          channel_selects[n - 1] \in 0 .. (red_channel_strides[n] - 1)

\* C6: if two populated slots differ in width or height, the run ends with
\* the size report, a line for every populated slot with its own path and
\* dimensions, and the output file is not written; for every set of
\* populated slots.
C6_MismatchReported ==
    ( /\ Admitted
      /\ ValidSwizzle
      /\ ValidSelect
      /\ SourcesPresent
      /\ ~SameSizes
      /\ pc \in Terminal )
    => /\ pc = "failed"
       /\ ~saved
       /\ <<"All input images must share the same size">> \in out
       /\ \A i \in Slots :
              Populated(i) => <<"size", i, i, files[i].width, files[i].height>> \in out

\* C7: if the swizzle mask holds a character outside 0123bwg, or the select
\* mask one outside rgba, at any position and whether or not the slot of
\* that position is populated, the run reports it and the output file is
\* never written.  (Stated by its consequence for the output file alone:
\* which failure is reported is left open.)
C7_BadMaskNoOutput ==
    ( /\ Admitted
      /\ \/ \E c \in 1 .. Len(swizzle_mask) : swizzle_mask[c] \notin SwizzleChars
         \/ \E i \in 1 .. Len(select_mask) : select_mask[i] \notin SelectChars )
    => ~saved

\* C8: if a path that was given does not decode, the run ends without
\* writing the output file, whether or not the swizzle mask names that source.
C8_DecodeFailureTerminal ==
    (\E i \in Slots : paths[i] /\ ~files[i].ok) => ~saved

\* C10: when open_source_images has returned, slot i holds an image exactly
\* if path i was given and decoded, and the image is the one decoded from
\* path i.
C10_SlotIsPath ==
    (pc = "reading" /\ readers = {})
    => \A i \in Slots : images[i] = IF Populated(i) THEN i ELSE None

\* C9: during the composition of a plan of length 2..4, under every
\* interleaving of the workers: no canvas byte is written by two tasks; every
\* task writes only inside the destination chunk it was given, at the byte
\* offset of its channel; the live workers all belong to the wave being
\* joined, and none is left when the next wave or channel starts or when the
\* canvas goes to the encoder.
C9_DisjointWrites ==
    Len(swizzle_mask) \in 2 .. 4 =>
       /\ Cardinality({t[3] : t \in written}) = Cardinality(written)
       /\ \A t \in written :
              /\ t[3] \in DestChunkStart(t[2]) .. (DestChunkStart(t[2]) + DestChunkLen(t[2]) - 1)
              /\ t[3] % 4 = t[1]
       /\ \A w \in workers :
              /\ pc = "joining"
              /\ w.img_idx = img_idx
              /\ w.chunk \in WaveChunks(img_idx, wave)
       /\ pc \in {"compose", "save", "done"} => workers = {}

\* two workers of one wave of the last of four channels are both in the
\* middle of their chunks, the canvas bytes of the earlier channels written
C9_Witness ==
    /\ Len(swizzle_mask) = 4
    /\ img_idx = 3
    /\ \E w1, w2 \in workers :
          /\ w1.chunk # w2.chunk
          /\ w1.st = "running" /\ w1.i > 0
          /\ w2.st = "running" /\ w2.i > 0
          /\ w1.i # w2.i
    /\ \E t \in written : t[1] = 0 /\ t[2] = 1

=============================================================================
